---- MODULE Spec2Model ----
(***************************************************************************)
(* Process supervision core of src/services/minecraft/minecraft.js:        *)
(* the runningServers registry, startServer / stopServer / sendCommand,    *)
(* the stdout / stderr / close handlers of a spawned process and the       *)
(* bounded in-memory log array.                                            *)
(*                                                                         *)
(* Node.js runs every handler to its next await without interleaving, so   *)
(* one action is one such run-to-completion segment.                       *)
(***************************************************************************)
EXTENDS Integers, Sequences, FiniteSets, TLC

\* ---------------------------------------------------------------- bounds
MaxProcs    == 2     \* processes spawned in one behaviour
MaxCalls    == 3     \* startServer / stopServer calls in one behaviour
MaxAppends  == 3     \* stdout / stderr / command appends in one behaviour
MaxLogLines == 2     \* config.minecraft.maxLogLines (the capacity N)

MaxQueries  == 2     \* getServerLogs calls in one behaviour
MaxFileLines == 2    \* lines of a log file
MaxSignals  == 2     \* termination signals in one behaviour

\* Text is a sequence of characters.
ServerIds == {"s1"}          \* identifiers the store has a record for
\* chunks the child writes to stdout / stderr
Data      == {<<"\n">>, <<"a", "\n">>}
Commands  == {<<"s", "a", "y">>}        \* console commands of sendCommand
ExitCodes == {0, 1}
Signals   == {"SIGTERM", "SIGINT"}      \* process.on(...) of index.js

\* inputs of the log queries
QueryData == {<<"E", "r", "\n">>, <<"o", "k">>}
Types     == {"", "stderr"}             \* options.type, "" = not given
Searches  == {<<>>, <<"e", "R">>}         \* options.search, <<>> = not given
Limits    == {<<>>, <<0>>, <<1>>}       \* options.limit, <<>> = not given
Options   == [type : Types, search : Searches, limit : Limits]
DefaultLimit == 100
\* lines of logs/latest.log
ErrLine == <<"[", "1", "2", ":", "3", "4", ":", "5", "6", "]", " ", "[", "S", "e", "r", "v", "e", "r", " ", "t", "h", "r", "e", "a", "d", "/", "E", "R", "R", "O", "R", "]", ":", " ", "O", "o", "p", "s">>
InfoLine == <<"[", "0", "1", ":", "0", "2", ":", "0", "3", "]", " ", "[", "m", "a", "i", "n", "/", "I", "N", "F", "O", "]", ":", " ", "o", "k">>
PlainLine == <<"O", "o", "p", "s">>
BlankLine == <<" ">>
NoTextLine == <<"[", "1", "2", ":", "3", "4", ":", "5", "6", "]", " ", "[", "m", "a", "i", "n", "/", "E", "R", "R", "O", "R", "]", ":", " ">>
InnerLine == <<">", "[", "0", "1", ":", "0", "2", ":", "0", "3", "]", " ", "[", "E", "]", ":", " ", "b">>
FileLines == {ErrLine, InfoLine, PlainLine, BlankLine, NoTextLine, InnerLine}
\* what spawn('java', ...) does: it starts the child, throws, or returns a
\* child that only emits 'error' later (ENOENT, EACCES, EAGAIN)
SpawnOutcomes == {"ok", "throw", "error"}

VARIABLES
  runningServers,   \* Map id -> pid of the registered instance, 0 = no entry
  procs,            \* spawned processes, index = pid
  calls,            \* startServer / stopServer invocations, in call order
  jarExists,        \* fs.existsSync(jarPath) per identifier
  appends,          \* number of stdout / stderr / command appends so far
  lastCmd,          \* the latest sendCommand call and what it returned
  lastLogs,         \* the latest getServerLogs call and what it returned
  lastStarted,      \* the store's lastStarted per identifier, as the pid whose
                    \* start time it holds, 0 = never saved
  logFile,          \* <path>/logs/latest.log per identifier
  props,            \* the stored properties and <path>/server.properties
  sup               \* the supervisor process of index.js: signals, shutdowns

vars == <<runningServers, procs, calls, jarExists, appends, lastCmd, lastLogs,
         lastStarted, logFile, props, sup>>

\* the state outside the registry and the store's start timestamps
aux == <<logFile, props, sup>>

\* ---------------------------------------------------------------- helpers
Max(a, b) == IF a > b THEN a ELSE b
Min(a, b) == IF a < b THEN a ELSE b

\* String.prototype.trim()
IsSpace(ch) == ch \in {" ", "\n", "\t", "\r"}
RECURSIVE TrimStart(_)
TrimStart(t) == IF t # <<>> /\ IsSpace(Head(t)) THEN TrimStart(Tail(t)) ELSE t
RECURSIVE TrimEnd(_)
TrimEnd(t) ==
  IF t # <<>> /\ IsSpace(t[Len(t)]) THEN TrimEnd(SubSeq(t, 1, Len(t) - 1)) ELSE t
Trim(t) == TrimEnd(TrimStart(t))

\* `Command executed: ${command}` and `Server process exited with code ${code}`
CommandMessage(cmd) == <<"C", "o", "m", "m", "a", "n", "d", " ", "e", "x", "e", "c", "u", "t", "e", "d", ":", " ">> \o cmd
CodeText(code) == IF code = 0 THEN <<"0">> ELSE <<"1">>
ExitMessage(code) == <<"S", "e", "r", "v", "e", "r", " ", "p", "r", "o", "c", "e", "s", "s", " ", "e", "x", "i", "t", "e", "d", " ", "w", "i", "t", "h", " ", "c", "o", "d", "e", " ">> \o CodeText(code)
StopLine == <<"s", "t", "o", "p", "\n">>

LogEntry(type, message) == [type |-> type, message |-> message]

\* logs.push(e); if (logs.length > max) logs.shift();
PushShift(logs, e, max) ==
  IF Len(logs) + 1 > max THEN Tail(Append(logs, e)) ELSE Append(logs, e)

\* the close handler's logs.push(logEntry): no capacity check follows it
PushExit(logs, e) == Append(logs, e)

\* subprocess.kill('SIGKILL'): the signal reaches the child only while it
\* has not exited; c is the stopServer call that caused it
Kill(ps, p, c) ==
  IF ps[p].state = "live"
    THEN [ps EXCEPT ![p].kills = Append(@, c)]
    ELSE ps

\* process.stdin.write(line): the line reaches the child only while it has
\* not exited (the stream of an exited child is destroyed, the write is lost)
StdinWrite(ps, p, line) ==
  IF ps[p].state = "live"
    THEN [ps EXCEPT ![p].stdin = Append(@, line)]
    ELSE ps

ClearTimeoutNoop(t) == t
\* clearTimeout(killTimeout)
ClearTimeout(t) == IF t = "armed" THEN "cancelled" ELSE t

\* fs.existsSync(logPath) is false
NoFile  == [exists |-> FALSE, content |-> <<>>]
\* the properties as createServer left them: version 0 stored and written
NoProps == [stored |-> 0, file |-> [version |-> 0, complete |-> TRUE]]
\* index.js after server.listen: no signal yet
NoSup   == [shutdowns |-> <<>>, http |-> "listening", exit |-> -1]
\* a child that has not read server.properties yet
NotRead == [version |-> -1, complete |-> TRUE]

NewProc(id, os) ==
  [id |-> id, state |-> IF os = "ok" THEN "live" ELSE "spawnError",
   logs |-> <<>>, appended |-> <<>>, stdin |-> <<>>, kills |-> <<>>,
   closeStage |-> "none", exitCode |-> -1, statusEvents |-> <<>>,
   propsRead |-> NotRead]

NewCall(op, id, force) ==
  [op |-> op, id |-> id, force |-> force, pc |-> "done", pid |-> 0,
   timer |-> "none", result |-> "none", joined |-> FALSE,
   exitWhileArmed |-> FALSE, newProps |-> FALSE, content |-> -1]

NoCmd  == [id |-> "", pid |-> 0, live |-> FALSE, result |-> "none"]
NoLogs == [n |-> 0, id |-> "", pid |-> 0,
           options |-> [type |-> "", search |-> <<>>, limit |-> <<>>],
           ref |-> 0, value |-> <<>>]

Pids    == 1..Len(procs)
CallIds == 1..Len(calls)

\* start calls that may still spawn
PendingSpawns == Cardinality({c \in CallIds : calls[c].pc = "findById"})

\* ---------------------------------------------------------------- Init
Init ==
  /\ runningServers = [id \in ServerIds |-> 0]
  /\ procs = <<>>
  /\ calls = <<>>
  /\ jarExists \in [ServerIds -> BOOLEAN]
  /\ appends = 0
  /\ lastCmd = NoCmd
  /\ lastLogs = NoLogs
  /\ lastStarted = [id \in ServerIds |-> 0]
  /\ logFile = [id \in ServerIds |-> NoFile]
  /\ props = [id \in ServerIds |-> NoProps]
  /\ sup = NoSup

\* ---------------------------------------------------------------- startServer
AlreadyRunningAsStarted(id) ==
  [NewCall("start", id, FALSE) EXCEPT !.result = "started"]
\* lines 246-248: return { status: 'error', message: 'Server is already running' }
AlreadyRunningReturn(id) ==
  [NewCall("start", id, FALSE) EXCEPT !.result = "AlreadyRunning"]

\* lines 243-252: the has() check, then the await of findById
StartServer(id) ==
  /\ Len(calls) < MaxCalls
  /\ IF runningServers[id] # 0
       THEN calls' = Append(calls, AlreadyRunningReturn(id))
       ELSE /\ Len(procs) + PendingSpawns < MaxProcs
            /\ calls' = Append(calls,
                [NewCall("start", id, FALSE) EXCEPT !.pc = "findById"])
  /\ UNCHANGED <<runningServers, procs, jarExists, appends, lastCmd, lastLogs, lastStarted, aux>>

\* lines 252-369: after findById resolves, up to the await of server.save()
StartSpawn(c, os) ==
  /\ c \in CallIds
  /\ calls[c].op = "start" /\ calls[c].pc = "findById"
  /\ LET id == calls[c].id IN
     IF ~jarExists[id]
       THEN /\ calls' = [calls EXCEPT ![c].pc = "done",
                                      ![c].result = "MissingArtifact"]
            /\ UNCHANGED <<runningServers, procs>>
       ELSE IF os = "throw"
       THEN /\ calls' = [calls EXCEPT ![c].pc = "done",
                                      ![c].result = "SpawnFailure"]
            /\ UNCHANGED <<runningServers, procs>>
       ELSE /\ procs' = Append(procs, NewProc(id, os))
            /\ runningServers' = [runningServers EXCEPT ![id] = Len(procs) + 1]
            /\ calls' = [calls EXCEPT ![c].pc = "save",
                                      ![c].pid = Len(procs) + 1]
  /\ UNCHANGED <<jarExists, appends, lastCmd, lastLogs, lastStarted, aux>>

\* lines 368-380: server.save() resolved, lastStarted is in the store
StartSaved(c) ==
  /\ c \in CallIds
  /\ calls[c].op = "start" /\ calls[c].pc = "save"
  /\ calls' = [calls EXCEPT ![c].pc = "done", ![c].result = "started"]
  /\ procs' = [procs EXCEPT ![calls[c].pid].statusEvents = Append(@, "running")]
  /\ lastStarted' = [lastStarted EXCEPT ![calls[c].id] = calls[c].pid]
  /\ UNCHANGED <<runningServers, jarExists, appends, lastCmd, lastLogs, aux>>

\* lines 369, 381-384: server.save() rejected, the catch returns an error
StartSaveFailed(c) ==
  /\ c \in CallIds
  /\ calls[c].op = "start" /\ calls[c].pc = "save"
  /\ calls' = [calls EXCEPT ![c].pc = "done", ![c].result = "SaveError"]
  /\ UNCHANGED <<runningServers, procs, jarExists, appends, lastCmd, lastLogs, lastStarted, aux>>

\* ---------------------------------------------------------------- output
\* lines 291-311
StdoutData(p, d) ==
  /\ p \in Pids /\ procs[p].state = "live"
  /\ appends < MaxAppends
  /\ IF Trim(d) = <<>>
       THEN UNCHANGED <<procs, appends>>
       ELSE /\ procs' = [procs EXCEPT
                 ![p].logs = PushShift(@, LogEntry("stdout", Trim(d)), MaxLogLines),
                 ![p].appended = Append(@, LogEntry("stdout", Trim(d)))]
            /\ appends' = appends + 1
  /\ UNCHANGED <<runningServers, calls, jarExists, lastCmd, lastLogs, lastStarted, aux>>

\* lines 314-332
StderrData(p, d) ==
  /\ p \in Pids /\ procs[p].state = "live"
  /\ appends < MaxAppends
  /\ IF Trim(d) = <<>>
       THEN UNCHANGED <<procs, appends>>
       ELSE /\ procs' = [procs EXCEPT
                 ![p].logs = PushShift(@, LogEntry("stderr", Trim(d)), MaxLogLines),
                 ![p].appended = Append(@, LogEntry("stderr", Trim(d)))]
            /\ appends' = appends + 1
  /\ UNCHANGED <<runningServers, calls, jarExists, lastCmd, lastLogs, lastStarted, aux>>

\* ---------------------------------------------------------------- close
\* lines 335-353 and the once('close') listeners of lines 420-423: the
\* process has exited (or its spawn failed); the handler runs up to its
\* await of server.save(), then every pending stopServer promise of this
\* process resolves
Close(p, code) ==
  /\ p \in Pids /\ procs[p].state \in {"live", "spawnError"}
  /\ procs' = [procs EXCEPT
       ![p].state = "closed",
       ![p].closeStage = "saving",
       ![p].exitCode = code,
       ![p].statusEvents = Append(@, "stopped"),
       ![p].logs = PushExit(@, LogEntry("system", ExitMessage(code))),
       ![p].appended = Append(@, LogEntry("system", ExitMessage(code)))]
  /\ calls' = [c \in CallIds |->
       IF calls[c].op = "stop" /\ calls[c].pid = p /\ calls[c].pc = "wait"
         THEN [calls[c] EXCEPT !.pc = "done", !.result = "graceful",
                               !.timer = ClearTimeout(@),
                               !.exitWhileArmed = (calls[c].timer = "armed")]
         ELSE calls[c]]
  /\ UNCHANGED <<runningServers, jarExists, appends, lastCmd, lastLogs, lastStarted, aux>>

\* lines 353-356: server.save() resolved, runningServers.delete(serverId);
\* the saved document is the one line 368 set lastStarted on
CloseSaved(p) ==
  /\ p \in Pids /\ procs[p].closeStage = "saving"
  /\ procs' = [procs EXCEPT ![p].closeStage = "done"]
  /\ runningServers' = [runningServers EXCEPT ![procs[p].id] = 0]
  /\ lastStarted' = [lastStarted EXCEPT ![procs[p].id] = p]
  /\ UNCHANGED <<calls, jarExists, appends, lastCmd, lastLogs, aux>>

\* line 353: server.save() rejected, the handler ends before the delete
CloseSaveFailed(p) ==
  /\ p \in Pids /\ procs[p].closeStage = "saving"
  /\ procs' = [procs EXCEPT ![p].closeStage = "failed"]
  /\ UNCHANGED <<runningServers, calls, jarExists, appends, lastCmd, lastLogs, lastStarted, aux>>

\* ---------------------------------------------------------------- stopServer
NotRunningAsSuccess(id, force) ==
  [NewCall("stop", id, force) EXCEPT !.result = "forced"]
\* lines 396-398: return { status: 'error', message: 'Server is not running' }
NotRunningReturn(id, force) ==
  [NewCall("stop", id, force) EXCEPT !.result = "NotRunning"]

\* lines 393-424
StopServer(id, force) ==
  /\ Len(calls) < MaxCalls
  /\ LET p == runningServers[id]
         c == Len(calls) + 1
         inFlight == \E d \in CallIds :
                        /\ calls[d].op = "stop" /\ ~calls[d].force
                        /\ calls[d].pid = p /\ calls[d].pc = "wait"
     IN
     IF p = 0
       THEN /\ calls' = Append(calls, NotRunningReturn(id, force))
            /\ UNCHANGED procs
       ELSE IF force
         THEN /\ procs' = Kill(procs, p, c)
              /\ calls' = Append(calls,
                    [NewCall("stop", id, force) EXCEPT
                       !.pid = p, !.result = "forced", !.joined = inFlight])
         ELSE /\ procs' = StdinWrite(procs, p, StopLine)
              /\ calls' = Append(calls,
                    [NewCall("stop", id, force) EXCEPT
                       !.pid = p, !.pc = "wait", !.timer = "armed",
                       !.joined = inFlight])
  /\ UNCHANGED <<runningServers, jarExists, appends, lastCmd, lastLogs, lastStarted, aux>>

\* lines 410-416: the killTimeout callback
TimerFire(c) ==
  /\ c \in CallIds /\ calls[c].timer = "armed"
  /\ calls' = [calls EXCEPT ![c].timer = "fired"]
  /\ LET p == runningServers[calls[c].id] IN
       procs' = IF p # 0 THEN Kill(procs, p, c) ELSE procs
  /\ UNCHANGED <<runningServers, jarExists, appends, lastCmd, lastLogs, lastStarted, aux>>

\* ---------------------------------------------------------------- sendCommand
\* lines 451-473
SendCommandNoWrite(id, cmd) ==
  /\ appends < MaxAppends
  /\ LET p == runningServers[id] IN
     IF p = 0
       THEN /\ lastCmd' = [id |-> id, pid |-> 0, live |-> FALSE,
                            result |-> "NotRunning"]
            /\ UNCHANGED <<procs, appends>>
       ELSE /\ procs' =
                 [procs EXCEPT
                    ![p].logs = PushShift(@, LogEntry("command", CommandMessage(cmd)),
                                          MaxLogLines),
                    ![p].appended = Append(@, LogEntry("command", CommandMessage(cmd)))]
            /\ appends' = appends + 1
            /\ lastCmd' = [id |-> id, pid |-> p, live |-> procs[p].state = "live",
                            result |-> "sent"]
  /\ UNCHANGED <<runningServers, calls, jarExists, lastLogs, lastStarted, aux>>

SendCommand(id, cmd) ==
  /\ appends < MaxAppends
  /\ LET p == runningServers[id] IN
     IF p = 0
       THEN /\ lastCmd' = [id |-> id, pid |-> 0, live |-> FALSE,
                            result |-> "NotRunning"]
            /\ UNCHANGED <<procs, appends>>
       ELSE /\ procs' = StdinWrite(
                 [procs EXCEPT
                    ![p].logs = PushShift(@, LogEntry("command", CommandMessage(cmd)),
                                          MaxLogLines),
                    ![p].appended = Append(@, LogEntry("command", CommandMessage(cmd)))],
                 p, cmd \o <<"\n">>)
            /\ appends' = appends + 1
            /\ lastCmd' = [id |-> id, pid |-> p, live |-> procs[p].state = "live",
                            result |-> "sent"]
  /\ UNCHANGED <<runningServers, calls, jarExists, lastLogs, lastStarted, aux>>

\* ---------------------------------------------------------------- getServerLogs
UpperLetters == <<"A", "B", "C", "D", "E", "F", "G", "H", "I", "J", "K", "L", "M", "N", "O", "P", "Q", "R", "S", "T", "U", "V", "W", "X", "Y", "Z">>
LowerLetters == <<"a", "b", "c", "d", "e", "f", "g", "h", "i", "j", "k", "l", "m", "n", "o", "p", "q", "r", "s", "t", "u", "v", "w", "x", "y", "z">>
\* String.prototype.toLowerCase()
LowerOf ==
  [ch \in {UpperLetters[i] : i \in 1..Len(UpperLetters)} |->
     LowerLetters[CHOOSE i \in 1..Len(UpperLetters) : UpperLetters[i] = ch]]
LowerChar(ch) == IF ch \in DOMAIN LowerOf THEN LowerOf[ch] ELSE ch
ToLowerCase(t) == [i \in 1..Len(t) |-> LowerChar(t[i])]
\* String.prototype.includes(sub)
Includes(t, sub) ==
  \E i \in 0..(Len(t) - Len(sub)) : SubSeq(t, i + 1, i + Len(sub)) = sub

SliceAll(a, start) == a
\* Array.prototype.slice(start): a negative start counts from the end
Slice(a, start) ==
  LET from == IF start < 0 THEN Max(Len(a) + start, 0) ELSE Min(start, Len(a))
  IN  SubSeq(a, from + 1, Len(a))

\* lines 497-510: type filter, text search, limit
FilterLogs(logs, o) ==
  LET byType == IF o.type # ""
                  THEN SelectSeq(logs, LAMBDA log : log.type = o.type)
                  ELSE logs
      searchLower == ToLowerCase(o.search)
      bySearch == IF o.search # <<>>
                    THEN SelectSeq(byType, LAMBDA log :
                           Includes(ToLowerCase(log.message), searchLower))
                    ELSE byType
      limit == IF o.limit = <<>> \/ o.limit[1] = 0 THEN DefaultLimit ELSE o.limit[1]
  IN  Slice(bySearch, 0 - Min(limit, Len(bySearch)))

AliasOf(p, value) == [ref |-> p, value |-> value]
\* line 495, [...serverInstance.logs]: the result is a new array, ref = 0;
\* ref = p would be the live buffer of process p itself
CopyOf(p, value) == [ref |-> 0, value |-> value]

\* what the caller holding the returned array sees
Returned(r) == IF r.ref # 0 THEN procs[r.ref].logs ELSE r.value

\* lines 486-512, the branch with a registered handle
GetServerLogs(id, o) ==
  /\ lastLogs.n < MaxQueries
  /\ runningServers[id] # 0
  /\ LET p == runningServers[id]
         res == CopyOf(p, FilterLogs(procs[p].logs, o))
     IN lastLogs' = [n |-> lastLogs.n + 1, id |-> id, pid |-> p, options |-> o,
                     ref |-> res.ref, value |-> res.value]
  /\ UNCHANGED <<runningServers, procs, calls, jarExists, appends, lastCmd, lastStarted, aux>>

\* ---------------------------------------------------------------- getServerLogsFromFile
\* String.prototype.indexOf(ch, from), 0 = not found
RECURSIVE IndexOf(_, _, _)
IndexOf(t, ch, from) ==
  IF from > Len(t) THEN 0
  ELSE IF t[from] = ch THEN from ELSE IndexOf(t, ch, from + 1)

\* content.split('\n')
RECURSIVE Split(_)
Split(t) ==
  LET i == IndexOf(t, "\n", 1) IN
  IF i = 0 THEN <<t>>
  ELSE <<SubSeq(t, 1, i - 1)>> \o Split(SubSeq(t, i + 1, Len(t)))

\* \d and Number() on a run of digits
DigitOf == [ch \in {"0", "1", "2", "3", "4", "5", "6", "7", "8", "9"} |->
              CASE ch = "0" -> 0 [] ch = "1" -> 1 [] ch = "2" -> 2 [] ch = "3" -> 3
                [] ch = "4" -> 4 [] ch = "5" -> 5 [] ch = "6" -> 6 [] ch = "7" -> 7
                [] ch = "8" -> 8 [] ch = "9" -> 9]
IsDigit(ch) == ch \in DOMAIN DigitOf
RECURSIVE ToNumber(_)
ToNumber(t) ==
  IF t = <<>> THEN 0
  ELSE ToNumber(SubSeq(t, 1, Len(t) - 1)) * 10 + DigitOf[t[Len(t)]]

NoMatch == [found |-> FALSE, timeStr |-> <<>>, level |-> <<>>, message |-> <<>>]
\* /\[(\d{2}:\d{2}:\d{2})\] \[([^\]]+)\]: (.+)/ tried at index i: the level
\* runs to the first "]", '.' matches any character but a line terminator
MatchAt(line, i) ==
  LET n == Len(line)
      j == IndexOf(line, "]", i + 12)
  IN  IF /\ i + 12 <= n
         /\ line[i] = "["
         /\ IsDigit(line[i + 1]) /\ IsDigit(line[i + 2]) /\ line[i + 3] = ":"
         /\ IsDigit(line[i + 4]) /\ IsDigit(line[i + 5]) /\ line[i + 6] = ":"
         /\ IsDigit(line[i + 7]) /\ IsDigit(line[i + 8])
         /\ line[i + 9] = "]" /\ line[i + 10] = " " /\ line[i + 11] = "["
         /\ j > i + 12
         /\ j + 3 <= n
         /\ line[j + 1] = ":" /\ line[j + 2] = " "
         /\ line[j + 3] \notin {"\n", "\r"}
        THEN [found |-> TRUE, timeStr |-> SubSeq(line, i + 1, i + 8),
              level |-> SubSeq(line, i + 12, j - 1),
              message |-> SubSeq(line, j + 3, n)]
        ELSE NoMatch

\* line.match(re): the leftmost index the expression matches at
RECURSIVE MatchFrom(_, _)
MatchFrom(line, i) ==
  IF i > Len(line) THEN NoMatch
  ELSE IF MatchAt(line, i).found THEN MatchAt(line, i) ELSE MatchFrom(line, i + 1)

ErrorWord == <<"E", "R", "R", "O", "R">>
LevelTypeStdout(level) == "stdout"
\* line 558: level.includes('ERROR') ? 'stderr' : 'stdout'
LevelType(level) == IF Includes(level, ErrorWord) THEN "stderr" ELSE "stdout"

\* lines 551-556: new Date(y, m, d, hours, minutes, seconds).getTime(), as
\* the milliseconds after today's midnight; line 564: Date.now()
TimeOfDay(timeStr) ==
  [base |-> "midnight",
   ms |-> ((ToNumber(SubSeq(timeStr, 1, 2)) * 60 + ToNumber(SubSeq(timeStr, 4, 5))) * 60
             + ToNumber(SubSeq(timeStr, 7, 8))) * 1000]
DateNow == [base |-> "now", ms |-> 0]

\* lines 544-568: the map callback
ParseLine(line) ==
  LET match == MatchFrom(line, 1) IN
  IF match.found
    THEN [timestamp |-> TimeOfDay(match.timeStr), message |-> line,
          type |-> LevelType(match.level)]
    ELSE [timestamp |-> DateNow, message |-> line, type |-> "stdout"]

\* lines 539-568: split, drop the lines trim() leaves nothing of, parse
ParseLogFile(content) ==
  LET lines == SelectSeq(Split(content), LAMBDA line : Trim(line) # <<>>)
  IN  [k \in 1..Len(lines) |-> ParseLine(lines[k])]

\* lines 486-491 and 525-586: no handle is registered, the log file answers
GetServerLogsFromFile(id, o) ==
  /\ lastLogs.n < MaxQueries
  /\ runningServers[id] = 0
  /\ lastLogs' = [n |-> lastLogs.n + 1, id |-> id, pid |-> 0, options |-> o,
                  ref |-> 0,
                  value |-> IF ~logFile[id].exists
                              THEN <<>>
                              ELSE FilterLogs(ParseLogFile(logFile[id].content), o)]
  /\ UNCHANGED <<runningServers, procs, calls, jarExists, appends, lastCmd, lastStarted, aux>>


\* ---------------------------------------------------------------- updateServerProperties
\* lines 201-203: to the await of findById; np: newProperties has a key
UpdateServerProperties(id, np) ==
  /\ Len(calls) < MaxCalls
  /\ calls' = Append(calls, [NewCall("update", id, FALSE) EXCEPT
                               !.pc = "lookup", !.newProps = np])
  /\ UNCHANGED <<runningServers, procs, jarExists, appends, lastCmd, lastLogs, lastStarted, aux>>

\* lines 204-228: findById resolved; the running check, then the await of
\* server.save() or, with nothing to save, the call of fs.writeFile with
\* the content built from the stored properties
UpdateChecked(c) ==
  /\ c \in CallIds
  /\ calls[c].op = "update" /\ calls[c].pc = "lookup"
  /\ calls' = IF runningServers[calls[c].id] # 0
                THEN [calls EXCEPT ![c].pc = "done", ![c].result = "Running"]
                ELSE IF calls[c].newProps
                  THEN [calls EXCEPT ![c].pc = "saveProps"]
                  ELSE [calls EXCEPT ![c].pc = "write",
                                     ![c].content = props[calls[c].id].stored]
  /\ UNCHANGED <<runningServers, procs, jarExists, appends, lastCmd, lastLogs, lastStarted, aux>>

\* lines 215-228: server.save() resolved, the merged properties are stored;
\* the content is built and fs.writeFile is called
UpdateSaved(c) ==
  /\ c \in CallIds
  /\ calls[c].op = "update" /\ calls[c].pc = "saveProps"
  /\ props' = [props EXCEPT ![calls[c].id].stored = @ + 1]
  /\ calls' = [calls EXCEPT ![c].pc = "write",
                            ![c].content = props[calls[c].id].stored + 1]
  /\ UNCHANGED <<runningServers, procs, jarExists, appends, lastCmd, lastLogs, lastStarted,
                 logFile, sup>>

\* lines 215, 231-234: server.save() rejected
UpdateSaveFailed(c) ==
  /\ c \in CallIds
  /\ calls[c].op = "update" /\ calls[c].pc = "saveProps"
  /\ calls' = [calls EXCEPT ![c].pc = "done", ![c].result = "SaveError"]
  /\ UNCHANGED <<runningServers, procs, jarExists, appends, lastCmd, lastLogs, lastStarted, aux>>

\* line 228, fs.writeFile(propertiesPath, content): the file is opened with
\* truncation and the content written into it, in the thread pool
WriteOpen(c) ==
  /\ c \in CallIds
  /\ calls[c].op = "update" /\ calls[c].pc = "write"
  /\ props' = [props EXCEPT ![calls[c].id].file =
                 [version |-> calls[c].content, complete |-> FALSE]]
  /\ calls' = [calls EXCEPT ![c].pc = "writing"]
  /\ UNCHANGED <<runningServers, procs, jarExists, appends, lastCmd, lastLogs, lastStarted,
                 logFile, sup>>

\* lines 228-230: the last byte is written, the promise of fs.writeFile
\* resolves and updateServerProperties returns
WriteDone(c) ==
  /\ c \in CallIds
  /\ calls[c].op = "update" /\ calls[c].pc = "writing"
  /\ props' = [props EXCEPT ![calls[c].id].file =
                 [version |-> calls[c].content, complete |-> TRUE]]
  /\ calls' = [calls EXCEPT ![c].pc = "done", ![c].result = "updated"]
  /\ UNCHANGED <<runningServers, procs, jarExists, appends, lastCmd, lastLogs, lastStarted,
                 logFile, sup>>

\* lines 281-284: the child, spawned with cwd: server.path, reads
\* server.properties while it boots
ReadProperties(p) ==
  /\ p \in Pids /\ procs[p].state = "live"
  /\ procs[p].propsRead = NotRead
  /\ procs' = [procs EXCEPT ![p].propsRead = props[procs[p].id].file]
  /\ UNCHANGED <<runningServers, calls, jarExists, appends, lastCmd, lastLogs, lastStarted, aux>>

\* ---------------------------------------------------------------- listServers
\* Date.now() - server.lastStarted, given by the process whose start time
\* the store holds; since = 0: the store holds none (the difference is NaN)
Uptime(since) == [zero |-> FALSE, since |-> since]
ZeroUptime == [zero |-> TRUE, since |-> 0]

\* lines 61-88: what listServers reports for the stored servers
ListServers ==
  [id \in ServerIds |->
     LET isRunning == runningServers[id] # 0 IN
     [status |-> IF isRunning THEN "running" ELSE "stopped",
      uptime |-> IF isRunning THEN Uptime(lastStarted[id]) ELSE ZeroUptime]]

\* ---------------------------------------------------------------- shutdown
\* stopAllServers, lines 435-443: stopServer(serverId) for every key of
\* runningServers, each run to its return before the next one starts
RECURSIVE StopEach(_, _, _)
StopEach(ids, ps, cs) ==
  IF ids = {} THEN [procs |-> ps, calls |-> cs]
  ELSE LET id == CHOOSE i \in ids : TRUE
           p == runningServers[id]
           inFlight == \E d \in 1..Len(cs) :
                          /\ cs[d].op = "stop" /\ ~cs[d].force
                          /\ cs[d].pid = p /\ cs[d].pc = "wait"
       IN  StopEach(ids \ {id}, StdinWrite(ps, p, StopLine),
                    Append(cs, [NewCall("stop", id, FALSE) EXCEPT
                                  !.pid = p, !.pc = "wait", !.timer = "armed",
                                  !.joined = inFlight]))

Registered == {id \in ServerIds : runningServers[id] # 0}

\* the supervisor runs until process.exit
Running == sup.exit = -1

\* index.js lines 107-112, 126-127: a signal runs gracefulShutdown up to its
\* await of stopAllServers()
GracefulShutdown(sig) ==
  /\ Len(sup.shutdowns) < MaxSignals
  /\ Len(calls) + Cardinality(Registered) <= MaxCalls
  /\ LET r == StopEach(Registered, procs, calls) IN
       /\ procs' = r.procs
       /\ calls' = r.calls
       /\ sup' = [sup EXCEPT !.shutdowns = Append(@,
                    [signal |-> sig, pc |-> "stopAll", timer |-> "none",
                     stops |-> (Len(calls) + 1)..Len(r.calls),
                     targets |-> {runningServers[id] : id \in Registered}])]
  /\ UNCHANGED <<runningServers, jarExists, appends, lastCmd, lastLogs, lastStarted,
                 logFile, props>>

\* server.close(callback): the server stops listening, the callback runs
\* once the open connections have ended
HttpClose(http) == IF http = "listening" THEN "closing" ELSE http

\* index.js lines 112-123: Promise.all of the stop promises resolved;
\* server.close(...) and the 10 second timer
StopAllResolved(k) ==
  /\ k \in 1..Len(sup.shutdowns)
  /\ sup.shutdowns[k].pc = "stopAll"
  /\ \A c \in sup.shutdowns[k].stops : calls[c].pc = "done"
  /\ sup' = [sup EXCEPT !.shutdowns[k].pc = "closing",
                        !.shutdowns[k].timer = "armed",
                        !.http = HttpClose(@)]
  /\ UNCHANGED <<runningServers, procs, calls, jarExists, appends, lastCmd, lastLogs,
                 lastStarted, logFile, props>>

\* index.js lines 114-117: the callback of server.close
HttpClosed ==
  /\ sup.http = "closing"
  /\ sup' = [sup EXCEPT !.http = "closed", !.exit = 0]
  /\ UNCHANGED <<runningServers, procs, calls, jarExists, appends, lastCmd, lastLogs,
                 lastStarted, logFile, props>>

\* index.js lines 120-123: the forced-shutdown timer
ForceShutdown(k) ==
  /\ k \in 1..Len(sup.shutdowns)
  /\ sup.shutdowns[k].timer = "armed"
  /\ sup' = [sup EXCEPT !.shutdowns[k].timer = "fired", !.exit = 1]
  /\ UNCHANGED <<runningServers, procs, calls, jarExists, appends, lastCmd, lastLogs,
                 lastStarted, logFile, props>>

\* ---------------------------------------------------------------- Next
\* lifecycle: start / stop / exit, the only log entries are the exit entries
Next ==
  \/ \E id \in ServerIds : StartServer(id)
  \/ \E c \in CallIds, os \in SpawnOutcomes : StartSpawn(c, os)
  \/ \E c \in CallIds : StartSaved(c)
  \/ \E c \in CallIds : StartSaveFailed(c)
  \/ \E p \in Pids, code \in ExitCodes : Close(p, code)
  \/ \E p \in Pids : CloseSaved(p)
  \/ \E p \in Pids : CloseSaveFailed(p)
  \/ \E id \in ServerIds, force \in BOOLEAN : StopServer(id, force)
  \/ \E c \in CallIds : TimerFire(c)

Spec == Init /\ [][Next]_vars

\* log capture: start, output, commands and exit of the spawned processes
LogNext ==
  \/ \E id \in ServerIds : StartServer(id)
  \/ \E c \in CallIds : StartSpawn(c, "ok")
  \/ \E p \in Pids, d \in Data : StdoutData(p, d)
  \/ \E p \in Pids, d \in Data : StderrData(p, d)
  \/ \E id \in ServerIds, cmd \in Commands : SendCommand(id, cmd)
  \/ \E p \in Pids, code \in ExitCodes : Close(p, code)
  \/ \E p \in Pids : CloseSaved(p)

LogSpec == Init /\ [][LogNext]_vars

\* log queries on one running server: the state right after startServer
\* registered its handle
QueryInit ==
  /\ runningServers = [id \in ServerIds |-> 1]
  /\ procs = <<NewProc("s1", "ok")>>
  /\ calls = <<[NewCall("start", "s1", FALSE) EXCEPT !.pc = "save", !.pid = 1]>>
  /\ jarExists = [id \in ServerIds |-> TRUE]
  /\ appends = 0
  /\ lastCmd = NoCmd
  /\ lastLogs = NoLogs
  /\ lastStarted = [id \in ServerIds |-> 0]
  /\ logFile = [id \in ServerIds |-> NoFile]
  /\ props = [id \in ServerIds |-> NoProps]
  /\ sup = NoSup

QueryNext ==
  \/ \E p \in Pids, d \in QueryData : StdoutData(p, d)
  \/ \E p \in Pids, d \in QueryData : StderrData(p, d)
  \/ \E p \in Pids, code \in ExitCodes : Close(p, code)
  \/ \E id \in ServerIds, o \in Options : GetServerLogs(id, o)

QuerySpec == QueryInit /\ [][QueryNext]_vars

\* log queries on servers that are not running: every line ends with "\n"
RECURSIVE JoinLines(_)
JoinLines(ls) ==
  IF ls = <<>> THEN <<>> ELSE Head(ls) \o <<"\n">> \o JoinLines(Tail(ls))
Files ==
  {NoFile} \cup
  {[exists |-> TRUE, content |-> JoinLines(ls)] :
     ls \in UNION {[1..n -> FileLines] : n \in 0..MaxFileLines}}

FileInit ==
  /\ runningServers = [id \in ServerIds |-> 0]
  /\ procs = <<>>
  /\ calls = <<>>
  /\ jarExists = [id \in ServerIds |-> TRUE]
  /\ appends = 0
  /\ lastCmd = NoCmd
  /\ lastLogs = NoLogs
  /\ lastStarted = [id \in ServerIds |-> 0]
  /\ logFile \in [ServerIds -> Files]
  /\ props = [id \in ServerIds |-> NoProps]
  /\ sup = NoSup

FileNext == \E id \in ServerIds, o \in Options : GetServerLogsFromFile(id, o)

FileSpec == FileInit /\ [][FileNext]_vars

\* shutdown of the supervisor with one server started: the server exits or
\* not, signals arrive
ShutdownNext ==
  \/ Running /\ \E c \in CallIds : StartSaved(c)
  \/ Running /\ \E p \in Pids, code \in ExitCodes : Close(p, code)
  \/ Running /\ \E p \in Pids : CloseSaved(p)
  \/ Running /\ \E c \in CallIds : TimerFire(c)
  \/ Running /\ \E sig \in Signals : GracefulShutdown(sig)
  \/ Running /\ \E k \in 1..MaxSignals : StopAllResolved(k)
  \/ Running /\ HttpClosed
  \/ Running /\ \E k \in 1..MaxSignals : ForceShutdown(k)

ShutdownSpec == QueryInit /\ [][ShutdownNext]_vars

\* the properties file: updates and starts of a server side by side
PropsNext ==
  \/ \E id \in ServerIds : StartServer(id)
  \/ \E c \in CallIds : StartSpawn(c, "ok")
  \/ \E p \in Pids : ReadProperties(p)
  \/ \E id \in ServerIds, np \in BOOLEAN : UpdateServerProperties(id, np)
  \/ \E c \in CallIds : UpdateChecked(c)
  \/ \E c \in CallIds : UpdateSaved(c)
  \/ \E c \in CallIds : UpdateSaveFailed(c)
  \/ \E c \in CallIds : WriteOpen(c)
  \/ \E c \in CallIds : WriteDone(c)

PropsSpec == Init /\ [][PropsNext]_vars

\* the scheduling the event loop guarantees: an armed timer fires unless it
\* is cleared, a process that was sent SIGKILL exits, and so does a child
\* whose spawn failed
Killed(p) ==
  p \in Pids /\ (procs[p].kills # <<>> \/ procs[p].state = "spawnError")
FairSpec ==
  /\ Spec
  /\ \A c \in 1..MaxCalls : WF_vars(TimerFire(c))
  /\ \A p \in 1..MaxProcs :
        WF_vars(Killed(p) /\ \E code \in ExitCodes : Close(p, code))
  \* the store answers every save, with success or with failure
  /\ \A p \in 1..MaxProcs : WF_vars(CloseSaved(p) \/ CloseSaveFailed(p))

\* the same scheduling while the supervisor runs; a resolved Promise.all
\* continues its awaiter and the armed 10 second timer fires
FairShutdownSpec ==
  /\ ShutdownSpec
  /\ \A c \in 1..MaxCalls : WF_vars(Running /\ TimerFire(c))
  /\ \A p \in 1..MaxProcs :
        WF_vars(Running /\ Killed(p) /\ \E code \in ExitCodes : Close(p, code))
  /\ \A p \in 1..MaxProcs : WF_vars(Running /\ CloseSaved(p))
  /\ \A k \in 1..MaxSignals : WF_vars(Running /\ StopAllResolved(k))
  /\ \A k \in 1..MaxSignals : WF_vars(Running /\ ForceShutdown(k))

\* ================================================================ properties
Range(s) == {s[i] : i \in 1..Len(s)}
LastN(s, n) == IF Len(s) <= n THEN s ELSE SubSeq(s, Len(s) - n + 1, Len(s))
LivePids(id) == {p \in Pids : procs[p].id = id /\ procs[p].state = "live"}
StopWrites(p) == Len(SelectSeq(procs[p].stdin, LAMBDA l : l = StopLine))
TimerKills(p) == Len(SelectSeq(procs[p].kills, LAMBDA c : ~calls[c].force))
IsStop(c) == calls[c].op = "stop" /\ calls[c].pid # 0

\* C1: concurrent start(id) calls spawn one process, never two live
\* processes for the same id.
C1_OneLiveProcessPerId ==
  \A id \in ServerIds : Cardinality(LivePids(id)) <= 1

\* C2: two concurrent stop(id, false) calls on one process write the stop
\* command once and send at most one forced kill signal.
C2_OneKillSequence ==
  \A c \in CallIds :
    (IsStop(c) /\ ~calls[c].force /\ calls[c].joined) =>
      /\ StopWrites(calls[c].pid) <= 1
      /\ TimerKills(calls[c].pid) <= 1

\* C3: a stop issued while a stop(id, false) on the same process is in
\* flight returns only after the exit notification, with the same outcome
\* as the first.
C3_JoinedStopWaitsForExit ==
  \A c \in CallIds :
    (IsStop(c) /\ calls[c].joined /\ calls[c].pc = "done") =>
      /\ procs[calls[c].pid].state = "closed"
      /\ \A d \in 1..(c - 1) :
           (IsStop(d) /\ calls[d].pid = calls[c].pid /\ calls[d].pc = "done")
             => calls[d].result = calls[c].result

\* C4: id has a registry entry exactly when a process spawned for id has
\* not yet exited.
C4_HandleIffLiveProcess ==
  \A id \in ServerIds : (runningServers[id] # 0) <=> (LivePids(id) # {})

\* C5: the log buffer of every handle has at most N entries.
C5_LogsWithinCapacity ==
  \A p \in Pids : Len(procs[p].logs) <= MaxLogLines

\* C6: the log buffer holds exactly the last N appended entries, in
\* arrival order.
C6_LogsAreLastN ==
  \A p \in Pids : procs[p].logs = LastN(procs[p].appended, MaxLogLines)

\* C7: when the process exits while the stop timer of a stop(id, false) is
\* still armed, the timer is cancelled at the exit notification and that
\* stop call never sends a forced kill signal.
C7_ExitCancelsTimer ==
  \A c \in CallIds :
    calls[c].exitWhileArmed =>
      /\ calls[c].timer = "cancelled"
      /\ \A p \in Pids : c \notin Range(procs[p].kills)

C7_Witness ==
  \E c \in CallIds :
    /\ calls[c].exitWhileArmed /\ calls[c].result = "graceful"
    /\ procs[calls[c].pid].closeStage = "done"

\* C8: when the stop timer elapses and the process has not exited, a forced
\* kill signal is sent to that process, and the stop call returns only after
\* its exit notification.
C8_TimeoutKillsTarget ==
  \A c \in CallIds :
    (IsStop(c) /\ ~calls[c].force) =>
      /\ (calls[c].timer = "fired" /\ procs[calls[c].pid].state = "live")
            => c \in Range(procs[calls[c].pid].kills)
      /\ calls[c].pc = "done" => procs[calls[c].pid].state = "closed"

\* C9: every stop call eventually returns, given that a forced kill leads
\* to the exit notification.
StopCalled(c)   == c \in CallIds /\ calls[c].op = "stop"
StopReturned(c) == c \in CallIds /\ calls[c].op = "stop" /\ calls[c].pc = "done"
C9_StopReturns ==
  \A c \in 1..MaxCalls : StopCalled(c) ~> StopReturned(c)

\* C10: stop(id, true) returns its success outcome only after the exit
\* notification of the process it killed.
C10_ForceReturnsAfterExit ==
  \A c \in CallIds :
    (IsStop(c) /\ calls[c].force /\ calls[c].result = "forced") =>
      procs[calls[c].pid].state = "closed"

\* C11: stop(id, force) for an id with no registered handle returns
\* NotRunning and changes nothing: no write, no signal, no timer, registry
\* and log buffers as before.
C11_StopWithoutHandleNoEffect ==
  [][\A id \in ServerIds :
       (/\ runningServers[id] = 0
        /\ Len(calls') = Len(calls) + 1
        /\ calls'[Len(calls')].op = "stop"
        /\ calls'[Len(calls')].id = id)
       => /\ calls'[Len(calls')].result = "NotRunning"
          /\ calls'[Len(calls')].pc = "done"
          /\ calls'[Len(calls')].timer = "none"
          /\ procs' = procs
          /\ runningServers' = runningServers
          /\ SubSeq(calls', 1, Len(calls)) = calls]_vars

C11_Witness ==
  \E c \in CallIds :
    /\ calls[c].op = "stop" /\ calls[c].result = "NotRunning"
    /\ \E d \in 1..(c - 1) : calls[d].op = "stop" /\ calls[d].pid # 0

\* C12: a handle leaves the registry only through the exit callback of its
\* own process, never through start, stop or another process's callback.
C12_OnlyOwnExitRemoves ==
  [][\A id \in ServerIds :
       LET p == runningServers[id] IN
       (p # 0 /\ runningServers'[id] # p)
         => (procs[p].closeStage = "saving" /\ procs'[p].closeStage = "done")]_vars

\* C13: after the exit notification of a process, its exit entry is
\* appended, the status event published and the id eventually erased from
\* the registry, also when the store's save fails.
Exited(p) == p \in Pids /\ procs[p].state = "closed"
ExitHandled(p) ==
  /\ p \in Pids
  /\ procs[p].appended # <<>>
  /\ procs[p].appended[Len(procs[p].appended)].type = "system"
  /\ procs[p].statusEvents # <<>>
  /\ runningServers[procs[p].id] # p
C13_ExitErasesHandle ==
  \A p \in 1..MaxProcs : Exited(p) ~> ExitHandled(p)

\* C14: an exit with a non-zero code while no stop was requested for the
\* process publishes a crashed status event, not the stopped one.
StopRequested(p) == \E c \in CallIds : calls[c].op = "stop" /\ calls[c].pid = p
C14_CrashReported ==
  \A p \in Pids :
    (procs[p].state = "closed" /\ procs[p].exitCode # 0 /\ ~StopRequested(p))
      => procs[p].statusEvents[Len(procs[p].statusEvents)] = "crashed"

\* C15: when the launch artifact is absent or the OS refuses to create the
\* process, the start call leaves no handle registered for id.
C15_FailedStartLeavesNoHandle ==
  /\ \A c \in CallIds :
       calls[c].result \in {"MissingArtifact", "SpawnFailure"} => calls[c].pid = 0
  /\ \A p \in Pids :
       procs[p].state = "spawnError" => runningServers[procs[p].id] # p

\* C16: a stop(id, false) whose timer sent the forced kill returns an
\* outcome different from the graceful one.
C16_ForcedOutcomeDistinct ==
  \A c \in CallIds :
    (IsStop(c) /\ ~calls[c].force /\ calls[c].pc = "done"
       /\ c \in Range(procs[calls[c].pid].kills))
      => calls[c].result # "graceful"

\* C17: sendCommand on a registered handle appends exactly one command
\* entry to that handle's buffer, writes the command line to the process's
\* input and returns success; with no handle it returns NotRunning and
\* appends and writes nothing.
IsSuffix(t, u) == Len(t) <= Len(u) /\ t = SubSeq(u, Len(u) - Len(t) + 1, Len(u))
CommandAppended(p) ==
  /\ Len(procs'[p].appended) = Len(procs[p].appended) + 1
  /\ procs'[p].appended[Len(procs'[p].appended)].type = "command"
C17_SendCommandEffect ==
  [][/\ \A p \in Pids :
          CommandAppended(p) =>
            \E cmd \in Commands :
              LET e == LogEntry("command", CommandMessage(cmd)) IN
              /\ runningServers[procs[p].id] = p
              /\ procs'[p].appended = Append(procs[p].appended, e)
              /\ procs'[p].logs # <<>>
              /\ procs'[p].logs[Len(procs'[p].logs)] = e
              /\ IsSuffix(SubSeq(procs'[p].logs, 1, Len(procs'[p].logs) - 1),
                          procs[p].logs)
              /\ procs[p].state = "live" =>
                   procs'[p].stdin = Append(procs[p].stdin, cmd \o <<"\n">>)
              /\ lastCmd'.result = "sent" /\ lastCmd'.pid = p
              /\ \A q \in Pids \ {p} : procs'[q] = procs[q]
     /\ (lastCmd' # lastCmd /\ runningServers[lastCmd'.id] = 0) =>
          (lastCmd'.result = "NotRunning" /\ procs' = procs)
     /\ (lastCmd' # lastCmd /\ lastCmd'.result = "NotRunning") =>
          runningServers[lastCmd'.id] = 0]_vars

C17_Witness ==
  /\ lastCmd.result = "sent" /\ lastCmd.live
  /\ Len(procs[lastCmd.pid].stdin) = 1
  /\ Len(procs[lastCmd.pid].appended) = MaxLogLines + 1

\* C18: sendCommand on a process that has already exited, its handle still
\* registered, returns NotRunning.
C18_ExitedIsNotRunning ==
  (lastCmd.pid # 0 /\ ~lastCmd.live) => lastCmd.result = "NotRunning"

\* C19: for a registered handle getLogs returns the last min(limit, m) of
\* the m entries that match the type and the case-insensitive search, in
\* arrival order, limit 100 when none is given.
Matches(log, o) ==
  /\ o.type # "" => log.type = o.type
  /\ o.search # <<>> =>
       Includes(ToLowerCase(log.message), ToLowerCase(o.search))
Matching(logs, o) == SelectSeq(logs, LAMBDA log : Matches(log, o))
IsQueryStep == lastLogs'.n = lastLogs.n + 1
C19_LastLimitMatching ==
  [][IsQueryStep =>
       LET o == lastLogs'.options
           m == Matching(procs[lastLogs'.pid].logs, o)
           limit == IF o.limit = <<>> THEN DefaultLimit ELSE o.limit[1]
       IN  lastLogs'.value = LastN(m, Min(limit, Len(m)))]_vars

\* C19 as amended: the same for a limit of at least 1 or no limit; a limit
\* of 0 counts as not given.
C19_LastLimitMatchingFrom1 ==
  [][IsQueryStep =>
       LET o == lastLogs'.options
           m == Matching(procs[lastLogs'.pid].logs, o)
           limit == IF o.limit = <<>> \/ o.limit[1] = 0
                      THEN DefaultLimit ELSE o.limit[1]
       IN  lastLogs'.value = LastN(m, Min(limit, Len(m)))]_vars

C19_Witness ==
  /\ lastLogs.n > 0
  /\ lastLogs.options = [type |-> "stderr", search |-> <<>>, limit |-> <<1>>]
  /\ Len(procs[lastLogs.pid].logs) = 2
  /\ procs[lastLogs.pid].logs[1].type = "stderr"
  /\ procs[lastLogs.pid].logs[2].type = "stdout"
  /\ lastLogs.value = <<procs[lastLogs.pid].logs[1]>>

\* C20: the sequence getLogs returned does not change when entries are
\* appended or evicted afterwards, and getLogs leaves the buffer and the
\* registry as they were.
C20_ResultIsSnapshot ==
  [][/\ (lastLogs.n > 0 /\ ~IsQueryStep) => Returned(lastLogs)' = Returned(lastLogs)
     /\ IsQueryStep => (procs' = procs /\ runningServers' = runningServers)]_vars

C20_Witness ==
  /\ lastLogs.n > 0
  /\ lastLogs.options = [type |-> "", search |-> <<>>, limit |-> <<>>]
  /\ Len(lastLogs.value) = MaxLogLines
  /\ lastLogs.value # procs[lastLogs.pid].logs
  /\ procs[lastLogs.pid].state = "live"

\* C21: the Log File Reader yields one entry per non-empty line (a line
\* with a character that is not white space), in file order; a line that
\* holds "[HH:MM:SS] [level]: text" becomes an entry with the whole line as
\* message, the line's time of day, and tag stderr when the level contains
\* ERROR, stdout otherwise; any other line becomes a stdout entry with the
\* whole line as message.  Stated for a query without filters on a file of
\* fewer than DefaultLimit lines.
Shapes(l) ==
  {ij \in (1..Len(l)) \X (1..Len(l)) :
     LET i == ij[1]
         j == ij[2]
     IN  /\ j >= i + 13 /\ j + 3 <= Len(l)
         /\ SubSeq(l, i, i) = <<"[">>
         /\ \A k \in {1, 2, 4, 5, 7, 8} : l[i + k] \in DOMAIN DigitOf
         /\ l[i + 3] = ":" /\ l[i + 6] = ":"
         /\ SubSeq(l, i + 9, i + 11) = <<"]", " ", "[">>
         /\ \A k \in (i + 12)..(j - 1) : l[k] # "]"
         /\ SubSeq(l, j, j + 2) = <<"]", ":", " ">>}
FirstShape(l) == CHOOSE ij \in Shapes(l) : \A kl \in Shapes(l) : ij[1] <= kl[1]
Clock(l, i) ==
  (DigitOf[l[i + 1]] * 10 + DigitOf[l[i + 2]]) * 3600000
    + (DigitOf[l[i + 4]] * 10 + DigitOf[l[i + 5]]) * 60000
    + (DigitOf[l[i + 7]] * 10 + DigitOf[l[i + 8]]) * 1000
EntryOf(l) ==
  IF Shapes(l) = {}
    THEN [timestamp |-> [base |-> "now", ms |-> 0], message |-> l, type |-> "stdout"]
    ELSE LET i == FirstShape(l)[1]
             j == FirstShape(l)[2]
         IN  [timestamp |-> [base |-> "midnight", ms |-> Clock(l, i)],
              message |-> l,
              type |-> IF \E k \in (i + 12)..(j - 5) : SubSeq(l, k, k + 4) = ErrorWord
                         THEN "stderr" ELSE "stdout"]
NonEmptyLines(content) ==
  SelectSeq(Split(content), LAMBDA l : \E k \in 1..Len(l) : ~IsSpace(l[k]))
NoOptions == [type |-> "", search |-> <<>>, limit |-> <<>>]
C21_FileEntryPerLine ==
  \A id \in ServerIds :
    (/\ lastLogs.n > 0 /\ lastLogs.id = id /\ lastLogs.pid = 0
     /\ lastLogs.options = NoOptions /\ logFile[id].exists)
    => LET ls == NonEmptyLines(logFile[id].content) IN
       /\ Len(lastLogs.value) = Len(ls)
       /\ \A k \in 1..Len(ls) : lastLogs.value[k] = EntryOf(ls[k])
C21_Witness ==
  /\ lastLogs.n > 0 /\ lastLogs.pid = 0 /\ lastLogs.options = NoOptions
  /\ Len(lastLogs.value) = 2
  /\ lastLogs.value[1] = [timestamp |-> [base |-> "midnight", ms |-> 45296000],
                          message |-> ErrLine, type |-> "stderr"]
  /\ lastLogs.value[2].type = "stdout"
  /\ lastLogs.value[2].timestamp.base = "now"

\* C22: stopAll() issues a non-forced stop for every identifier registered
\* when it is called, and eventually completes with every one of those
\* processes exited (or the supervisor itself has exited); a process that
\* ignores the stop command is killed when its own timer fires.
StopAllCalled(k) == k \in 1..Len(sup.shutdowns)
StopAllCompleted(k) ==
  /\ k \in 1..Len(sup.shutdowns)
  /\ \/ ~Running
     \/ /\ \A c \in sup.shutdowns[k].stops : calls[c].pc = "done"
        /\ \A p \in sup.shutdowns[k].targets : procs[p].state = "closed"
C22_StopAllCompletes ==
  \A k \in 1..MaxSignals : StopAllCalled(k) ~> StopAllCompleted(k)

\* C25: during shutdown stopAll is invoked exactly once, whatever number of
\* termination signals arrive, and the HTTP server is closed only after that
\* stopAll call has completed.
C25_StopAllOnceThenClose ==
  /\ Len(sup.shutdowns) <= 1
  /\ sup.http # "listening" =>
       /\ Len(sup.shutdowns) = 1
       /\ \A c \in sup.shutdowns[1].stops : calls[c].pc = "done"

\* C23: start(id) while a handle for id is registered returns AlreadyRunning,
\* spawns no process and leaves the registered handle, its log buffer and
\* the persisted start timestamp unchanged.
C23_StartWhileRegistered ==
  [][\A id \in ServerIds :
       (/\ runningServers[id] # 0
        /\ Len(calls') = Len(calls) + 1
        /\ calls'[Len(calls')].op = "start"
        /\ calls'[Len(calls')].id = id)
       => /\ calls'[Len(calls')].result = "AlreadyRunning"
          /\ calls'[Len(calls')].pc = "done"
          /\ calls'[Len(calls')].pid = 0
          /\ procs' = procs
          /\ runningServers' = runningServers
          /\ lastStarted' = lastStarted]_vars
C23_Witness ==
  \E c \in CallIds :
    /\ calls[c].op = "start" /\ calls[c].result = "AlreadyRunning"
    /\ runningServers[calls[c].id] # 0
    /\ procs[runningServers[calls[c].id]].state = "live"
    /\ lastStarted[calls[c].id] = runningServers[calls[c].id]

\* C24: in every state, also between the registration of a handle and the
\* save of its start timestamp, listAll reports an identifier Running
\* exactly when a handle is registered for it, with the uptime counted from
\* the start of the registered process, and uptime 0 without a handle.
C24_UptimeOfRegisteredProcess ==
  \A id \in ServerIds :
    /\ ListServers[id].status = "running" <=> runningServers[id] # 0
    /\ runningServers[id] # 0 =>
         ListServers[id].uptime = [zero |-> FALSE, since |-> runningServers[id]]
    /\ runningServers[id] = 0 => ListServers[id].uptime.zero

\* C26: the properties file is written atomically with respect to start: no
\* process started while updateServerProperties(id) runs reads a partially
\* written file.
C26_NoPartialPropertiesRead ==
  \A p \in Pids : procs[p].propsRead.complete

\* C27: a kill fired by the timer of a stop(id, false) call reaches only the
\* process that was registered under id when that call was made, never a
\* process started later under the same id.
C27_TimerKillsOwnTarget ==
  \A p \in Pids : \A k \in 1..Len(procs[p].kills) :
    LET c == procs[p].kills[k] IN
    ~calls[c].force => calls[c].pid = p

\* C28: when stop(id, force) returns success the registry holds no handle
\* for id, so that a start(id) issued right after is not rejected with
\* AlreadyRunning.
StopSucceeds(c) ==
  /\ c \in 1..Len(calls')
  /\ calls'[c].op = "stop"
  /\ calls'[c].pc = "done"
  /\ calls'[c].result \in {"graceful", "forced"}
  /\ (c \in CallIds => calls[c].pc # "done")
C28_NoHandleWhenStopReturns ==
  [][\A c \in 1..MaxCalls :
       StopSucceeds(c) => runningServers'[calls'[c].id] = 0]_vars

\* C29: the exit callback of a process removes only the handle that owns
\* that process: it never erases an entry whose handle owns another
\* process that is still live.
C29_ExitRemovesOwnHandle ==
  [][\A id \in ServerIds :
       (runningServers[id] # 0 /\ runningServers'[id] = 0)
       => procs[runningServers[id]].state # "live"]_vars

\* C30: whenever start(id) returns an error, whatever the cause, that call
\* has left no handle registered for id and no process running for id.
StartFails(c) ==
  /\ c \in 1..Len(calls')
  /\ calls'[c].op = "start"
  /\ calls'[c].pc = "done"
  /\ calls'[c].result # "started"
  /\ (c \in CallIds => calls[c].pc # "done")
C30_FailedStartLeavesNothing ==
  [][\A c \in 1..MaxCalls :
       (StartFails(c) /\ calls'[c].pid # 0)
       => /\ runningServers'[calls'[c].id] # calls'[c].pid
          /\ procs'[calls'[c].pid].state # "live"]_vars

\* C31: updateServerProperties changes neither the stored properties nor
\* the properties file while a handle is registered for the identifier,
\* also when a start(id) runs between its running check and its save or
\* write.
C31_NoUpdateWhileRegistered ==
  [][\A id \in ServerIds :
       runningServers[id] # 0 => props'[id] = props[id]]_vars

\* C32: after a termination signal the supervisor eventually exits, with
\* code 0 once the HTTP server is closed or with code 1 by the 10 second
\* timer, also when a stop issued by stopAll never completes.
Signalled == Len(sup.shutdowns) >= 1
Exits == sup.exit \in {0, 1}
C32_SupervisorExits == Signalled ~> Exits

====
